---- MODULE Spec2Model ----
(***************************************************************************)
(* A model of the CRM canister in                                          *)
(* src/src/icp_rust_boilerplate_backend/src/lib.rs: one shared id counter  *)
(* (a stable Cell<u64>), a customer map and an interaction map (two        *)
(* StableBTreeMap), and the update and query calls on them.                *)
(*                                                                         *)
(* Strings are sequences of one-character strings, so that the validation  *)
(* predicates look at the characters as the code does.  Option<T> is a     *)
(* sequence of length 0 (None) or 1 (Some).  A call's outcome is a record  *)
(* whose field kind is "Ok", "NotFound", "InvalidInput" or "Panic" (the    *)
(* call trapped: the system rolls the canister's state back to what it was *)
(* before the call).                                                       *)
(*                                                                         *)
(* The canister runs one call to completion before it takes the next: a    *)
(* call is one step, which leaves its arguments and its result in `last`,  *)
(* and Reply is the step that hands the result out and makes the canister  *)
(* Idle again.  A property of "the state right after a call" is a          *)
(* property of the states where `last` holds that call.                    *)
(***************************************************************************)
EXTENDS Integers, Sequences, FiniteSets, TLC

VARIABLES
    build,          \* how the canister was compiled: see Builds
    counter,        \* CUSTOMER_ID_COUNTER: the value held by the Cell
    region0,        \* memory region 0: the value the Cell has written through
    customers,      \* CUSTOMER_STORAGE (region 2): id -> bytes of a Customer
    interactions,   \* INTERACTION_STORAGE (region 1): id -> bytes of an
                    \* Interaction
    now,            \* ic_cdk::api::time(), non-decreasing from call to call
    last,           \* the call that has just run: [op, args, ret], or Idle
                    \* once its reply is delivered
    minted,         \* history: ids returned by the successful adds so far
    deleted_customers,     \* history: ids delete_customer has removed
    deleted_interactions,  \* history: ids delete_interaction has removed
    updated_interactions   \* history: the stored interactions that
                           \* update_interaction has succeeded on

vars == <<build, counter, region0, customers, interactions, now, last, minted,
          deleted_customers, deleted_interactions, updated_interactions>>

-----------------------------------------------------------------------------
(* Bounds of the model. *)

\* add_customer and add_interaction are taken while counter < MaxCounter
MaxCounter == 2
\* the clock runs from 0 to MaxTime
MaxTime == 1
\* TLC's integers are 32 bits wide, so the machine words are scaled down:
\* usize has WordBits bits on the 32-bit (wasm32) target, u64 and the usize of
\* a 64-bit host have 2 * WordBits bits.
WordBits == 2

RECURSIVE Pow2(_)
Pow2(n) == IF n = 0 THEN 1 ELSE 2 * Pow2(n - 1)

U64Modulus == Pow2(2 * WordBits)
U64Max == U64Modulus - 1

\* search_customers is tried with the page numbers 0 .. MaxPage and the page
\* sizes 0 .. MaxPageSize, and with values that `as usize` truncates on the
\* 32-bit target and the largest u64
MaxPage == 3
MaxPageSize == 2
PageNumbers == (0 .. MaxPage) \cup {Pow2(WordBits) + 1, U64Max}
PageSizes == (0 .. MaxPageSize) \cup {Pow2(WordBits), U64Max}

\* what the build decides: whether integer overflow panics (overflow-checks,
\* on in the dev profile and off in the release profile) and the width of usize
Builds ==
    [overflow_checks : BOOLEAN, usize_bits : {WordBits, 2 * WordBits}]

\* the canister as deployed: wasm32, release profile
CanisterBuild == [overflow_checks |-> FALSE, usize_bits |-> WordBits]

-----------------------------------------------------------------------------
(* Values. *)

None == <<>>
Some(x) == <<x>>

Ok(v) == [kind |-> "Ok", val |-> v]
NotFound == [kind |-> "NotFound"]
InvalidInput == [kind |-> "InvalidInput"]
Panic == [kind |-> "Panic"]

Customer(id, name, email, phone, created_at) ==
    [id |-> id, name |-> name, email |-> email, phone |-> phone,
     created_at |-> created_at]

Interaction(id, customer_id, interaction_type, content, created_at, updated_at) ==
    [id |-> id, customer_id |-> customer_id,
     interaction_type |-> interaction_type, content |-> content,
     created_at |-> created_at, updated_at |-> updated_at]

InteractionPayload(customer_id, interaction_type, content) ==
    [customer_id |-> customer_id, interaction_type |-> interaction_type,
     content |-> content]

\* Storable for Customer: the encoding the map keeps, and its decoding
customer_to_bytes(customer) ==
    <<customer.id, customer.name, customer.email, customer.phone,
      customer.created_at>>

customer_from_bytes(bytes) ==
    Customer(bytes[1], bytes[2], bytes[3], bytes[4], bytes[5])

\* Storable for Interaction
interaction_to_bytes(interaction) ==
    <<interaction.id, interaction.customer_id, interaction.interaction_type,
      interaction.content, interaction.created_at, interaction.updated_at>>

interaction_from_bytes(bytes) ==
    Interaction(bytes[1], bytes[2], bytes[3], bytes[4], bytes[5], bytes[6])

\* BoundedStorable::MAX_SIZE of Customer and of Interaction, in bytes
CUSTOMER_MAX_SIZE == 1024
INTERACTION_MAX_SIZE == 1024

\* the bytes of an unsigned LEB128 number
RECURSIVE Leb128Len(_)
Leb128Len(n) == IF n < 128 THEN 1 ELSE 1 + Leb128Len(n \div 128)

\* the bytes Candid writes for a String: its length, then its characters
\* (the characters of the model's strings take one byte each)
text_encoded_len(string) == Leb128Len(Len(string)) + Len(string)

\* The length of Encode!(customer): "DIDL", a type table of one record type
\* (its opcode, its field count and, per field, the LEB128 hash of the name
\* and a type code: the hash of id takes 3 bytes, the others 5), the argument
\* count and the argument's type, then the two u64 and the three strings.
customer_encoded_len(customer) ==
    4 + 1 + (1 + 1 + (3 + 1) + 4 * (5 + 1)) + 1 + 1 + 8 + 8
      + text_encoded_len(customer.name) + text_encoded_len(customer.email)
      + text_encoded_len(customer.phone)

\* The length of Encode!(interaction): as above with a type table of two
\* types (opt nat64, and the record of six fields), three u64, the Option
\* (a tag byte, and the u64 when it is Some) and the two strings.
interaction_encoded_len(interaction) ==
    4 + 1 + 2 + (1 + 1 + (3 + 1) + 5 * (5 + 1)) + 1 + 1 + 8 + 8 + 8
      + (IF interaction.updated_at = None THEN 1 ELSE 1 + 8)
      + text_encoded_len(interaction.interaction_type)
      + text_encoded_len(interaction.content)

\* the strings the calls are tried with
Ann == <<"A", "n", "n">>
Bob == <<"B", "o", "b">>
EmailAB == <<"a", "@", "b">>
EmailBC == <<"b", "@", "c">>
EmailNoAt == <<"a", "b">>
Phone5 == <<"5", "5">>
PhoneX7 == <<"x", "7">>
PhoneNoDigit == <<"x", "y">>
Empty == <<>>
Call == <<"C", "a", "l", "l">>
Mail == <<"M", "a", "i", "l">>
Hello == <<"h", "i">>
Bye == <<"b", "y", "e">>
\* a string that alone fills a record's MAX_SIZE
LongText == [i \in 1 .. CUSTOMER_MAX_SIZE |-> "n"]

\* (name, email, phone) arguments: valid ones, ones failing each check, and a
\* valid one whose record is larger than MAX_SIZE
CustomerInputs ==
    { [name |-> Ann, email |-> EmailAB, phone |-> Phone5],
      [name |-> Bob, email |-> EmailBC, phone |-> PhoneX7],
      [name |-> Ann, email |-> EmailBC, phone |-> PhoneX7],
      [name |-> Ann, email |-> EmailNoAt, phone |-> Phone5],
      [name |-> Bob, email |-> EmailAB, phone |-> PhoneNoDigit],
      [name |-> LongText, email |-> EmailAB, phone |-> Phone5] }

PayloadInputs ==
    { InteractionPayload(0, Call, Hello),
      InteractionPayload(1, Mail, Bye),
      InteractionPayload(0, Empty, Hello),
      InteractionPayload(1, Call, Empty),
      InteractionPayload(0, Call, LongText) }

\* the ids the calls are tried with: every id an add can return
Ids == 0 .. MaxCounter - 1

-----------------------------------------------------------------------------
(* The stable structures. *)

\* Cell::set stores the new value and returns Ok(previous value)
CellSet(cell, value) == [cell |-> value, ret |-> cell]

\* StableBTreeMap::init over a fresh region
EmptyMap == [k \in {} |-> k]

\* The maps keep each value as the bytes of Storable::to_bytes; the operators
\* below move bytes, and their callers encode and decode as the map does.

\* StableBTreeMap::get: the bytes under the key
MapGet(map, key) == IF key \in DOMAIN map THEN Some(map[key]) ELSE None

\* StableBTreeMap::insert: an upsert
MapInsert(map, key, bytes) ==
    [k \in DOMAIN map \cup {key} |-> IF k = key THEN bytes ELSE map[k]]

\* StableBTreeMap::remove: the map without the key, and the bytes it held
MapRemove(map, key) ==
    [map |-> [k \in DOMAIN map \ {key} |-> map[k]], ret |-> MapGet(map, key)]

\* StableBTreeMap::insert asserts that the value is no longer than MAX_SIZE:
\* a longer one makes the call trap
customer_fits(customer) == customer_encoded_len(customer) <= CUSTOMER_MAX_SIZE

interaction_fits(interaction) ==
    interaction_encoded_len(interaction) <= INTERACTION_MAX_SIZE

\* get on the customer map and on the interaction map
customer_get(map, key) ==
    IF MapGet(map, key) = None THEN None
    ELSE Some(customer_from_bytes(MapGet(map, key)[1]))

interaction_get(map, key) ==
    IF MapGet(map, key) = None THEN None
    ELSE Some(interaction_from_bytes(MapGet(map, key)[1]))

-----------------------------------------------------------------------------
(* Validation. *)

\* the characters of the strings above that char::is_numeric accepts
Numeric == {"0", "1", "2", "3", "4", "5", "6", "7", "8", "9"}

is_valid_interaction_payload(payload) ==
    ~(Len(payload.interaction_type) = 0) /\ ~(Len(payload.content) = 0)

is_valid_email(email) == \E i \in DOMAIN email : email[i] = "@"

\* is_valid_phone asking that every character be numeric (all for any)
is_valid_phone_all_numeric(phone) ==
    \A i \in DOMAIN phone : phone[i] \in Numeric

is_valid_phone(phone) == \E i \in DOMAIN phone : phone[i] \in Numeric

-----------------------------------------------------------------------------
(* Initial state: the thread_local statics over a fresh memory. *)

\* no call is running: the canister runs one call to completion at a time
Idle == [op |-> "idle", args |-> <<>>, ret |-> Ok(<<>>)]

InitStores ==
    /\ counter = 0
    /\ region0 = 0
    /\ customers = EmptyMap
    /\ interactions = EmptyMap
    /\ now = 0
    /\ last = Idle
    /\ minted = {}
    /\ deleted_customers = {}
    /\ deleted_interactions = {}
    /\ updated_interactions = {}

Init == build = CanisterBuild /\ InitStores

\* the same under any build: the host builds of the tests included
InitSearch == build \in Builds /\ InitStores

-----------------------------------------------------------------------------
(* Customers. *)

CallOf(op, args, ret) == [op |-> op, args |-> args, ret |-> ret]

_get_customer(id) == customer_get(customers, id)

get_customer_result(id) ==
    IF _get_customer(id) # None THEN Ok(_get_customer(id)[1]) ELSE NotFound

get_customer ==
    /\ last = Idle
    /\ \E id \in Ids :
        /\ last' = CallOf("get_customer", [id |-> id], get_customer_result(id))
        /\ UNCHANGED <<build, counter, region0, customers, interactions, now,
                       minted, deleted_customers, deleted_interactions,
                       updated_interactions>>

\* do_insert_customer leaving the store as it was
do_insert_customer_dropped(store, customer) == store

do_insert_customer(store, customer) ==
    MapInsert(store, customer.id, customer_to_bytes(customer))

\* next_customer_id writing the value it read: the increment forgotten
next_customer_id_stale(cell) == CellSet(cell, cell)

\* the counter step of add_customer: the id is what Cell::set returns
next_customer_id(cell) == CellSet(cell, cell + 1)

add_customer ==
    /\ last = Idle
    /\ \E in \in CustomerInputs :
        IF ~is_valid_email(in.email) \/ ~is_valid_phone(in.phone)
        THEN /\ last' = CallOf("add_customer", in, InvalidInput)
             /\ UNCHANGED <<build, counter, region0, customers, interactions,
                            now, minted, deleted_customers,
                            deleted_interactions, updated_interactions>>
        ELSE LET set == next_customer_id(counter)
                 id == set.ret
                 customer == Customer(id, in.name, in.email, in.phone, now)
             IN  IF ~customer_fits(customer)
                 THEN /\ last' = CallOf("add_customer", in, Panic)
                      /\ UNCHANGED <<build, counter, region0, customers,
                                     interactions, now, minted,
                                     deleted_customers, deleted_interactions,
                                     updated_interactions>>
                 ELSE /\ counter < MaxCounter
                      /\ counter' = set.cell
                      /\ region0' = set.cell
                      /\ customers' = do_insert_customer(customers, customer)
                      /\ last' = CallOf("add_customer", in, Ok(customer))
                      /\ minted' = minted \cup {id}
                      /\ UNCHANGED <<build, interactions, now,
                                     deleted_customers, deleted_interactions,
                                     updated_interactions>>

\* update_customer looking the id up before it validates
update_customer_call_lookup_first(id, name, email, phone) ==
    IF _get_customer(id) = None
    THEN [ret |-> NotFound, customers |-> customers]
    ELSE IF ~is_valid_email(email) \/ ~is_valid_phone(phone)
         THEN [ret |-> InvalidInput, customers |-> customers]
         ELSE LET customer == _get_customer(id)[1]
              IN  [ret |-> Ok(Customer(customer.id, name, email, phone,
                                       customer.created_at)),
                   customers |-> customers]

\* update_customer(id, name, email, phone): its result and the store after it.
\* The record changed is the copy get returned; nothing is inserted back.
update_customer_call(id, name, email, phone) ==
    IF ~is_valid_email(email) \/ ~is_valid_phone(phone)
    THEN [ret |-> InvalidInput, customers |-> customers]
    ELSE IF customer_get(customers, id) # None
         THEN LET customer == customer_get(customers, id)[1]
              IN  [ret |-> Ok(Customer(customer.id, name, email, phone,
                                       customer.created_at)),
                   customers |-> customers]
         ELSE [ret |-> NotFound, customers |-> customers]

update_customer ==
    /\ last = Idle
    /\ \E id \in Ids, in \in CustomerInputs :
        LET call == update_customer_call(id, in.name, in.email, in.phone)
        IN  /\ customers' = call.customers
            /\ last' = CallOf("update_customer",
                              [id |-> id, name |-> in.name, email |-> in.email,
                               phone |-> in.phone], call.ret)
            /\ UNCHANGED <<build, counter, region0, interactions, now, minted,
                           deleted_customers, deleted_interactions,
                           updated_interactions>>

\* delete_customer looking the record up (get) where it should remove it
delete_customer_call_kept(id) ==
    [ret |-> IF _get_customer(id) # None THEN Ok(_get_customer(id)[1])
             ELSE NotFound,
     customers |-> customers]

delete_customer_call(id) ==
    LET removed == MapRemove(customers, id)
    IN  [ret |-> IF removed.ret # None
                 THEN Ok(customer_from_bytes(removed.ret[1])) ELSE NotFound,
         customers |-> removed.map]

\* delete_customer removing the customer's interactions with it
delete_customer_cascading ==
    /\ last = Idle
    /\ \E id \in Ids :
        LET call == delete_customer_call(id)
            kept == { i \in DOMAIN interactions :
                        interaction_from_bytes(interactions[i]).customer_id
                            # id }
        IN  /\ customers' = call.customers
            /\ interactions' = IF call.ret.kind = "Ok"
                               THEN [i \in kept |-> interactions[i]]
                               ELSE interactions
            /\ last' = CallOf("delete_customer", [id |-> id], call.ret)
            /\ deleted_customers' = IF call.ret.kind = "Ok"
                                    THEN deleted_customers \cup {id}
                                    ELSE deleted_customers
            /\ UNCHANGED <<build, counter, region0, now, minted,
                           deleted_interactions, updated_interactions>>

delete_customer ==
    /\ last = Idle
    /\ \E id \in Ids :
        LET call == delete_customer_call(id)
        IN  /\ customers' = call.customers
            /\ last' = CallOf("delete_customer", [id |-> id], call.ret)
            /\ deleted_customers' = IF call.ret.kind = "Ok"
                                    THEN deleted_customers \cup {id}
                                    ELSE deleted_customers
            /\ UNCHANGED <<build, counter, region0, interactions, now, minted,
                           deleted_interactions, updated_interactions>>

-----------------------------------------------------------------------------
(* Interactions. *)

_get_interaction(id) == interaction_get(interactions, id)

get_interaction_result(id) ==
    IF _get_interaction(id) # None THEN Ok(_get_interaction(id)[1]) ELSE NotFound

get_interaction ==
    /\ last = Idle
    /\ \E id \in Ids :
        /\ last' = CallOf("get_interaction", [id |-> id],
                          get_interaction_result(id))
        /\ UNCHANGED <<build, counter, region0, customers, interactions, now,
                       minted, deleted_customers, deleted_interactions,
                       updated_interactions>>

\* do_insert_interaction keyed by the interaction's customer_id
do_insert_interaction_by_customer(store, interaction) ==
    MapInsert(store, interaction.customer_id,
              interaction_to_bytes(interaction))

do_insert_interaction(store, interaction) ==
    MapInsert(store, interaction.id, interaction_to_bytes(interaction))

\* next_interaction_id writing the value it read: the increment forgotten
next_interaction_id_stale(cell) == CellSet(cell, cell)

\* the counter step of add_interaction: the id is what Cell::set returns
next_interaction_id(cell) == CellSet(cell, cell + 1)

\* new_interaction stamping updated_at at creation
new_interaction_stamped(id, payload) ==
    Interaction(id, payload.customer_id, payload.interaction_type,
                payload.content, now, Some(now))

\* the record add_interaction builds
new_interaction(id, payload) ==
    Interaction(id, payload.customer_id, payload.interaction_type,
                payload.content, now, None)

\* add_interaction taking its id from the counter before it validates
add_interaction_mint_first ==
    /\ last = Idle
    /\ counter < MaxCounter
    /\ \E payload \in PayloadInputs :
        LET set == next_interaction_id(counter)
            interaction == new_interaction(set.ret, payload)
        IN  /\ counter' = set.cell
            /\ region0' = set.cell
            /\ IF ~is_valid_interaction_payload(payload)
               THEN /\ last' = CallOf("add_interaction", payload, InvalidInput)
                    /\ UNCHANGED <<interactions, minted>>
               ELSE /\ interaction_fits(interaction)
                    /\ interactions' = do_insert_interaction(interactions,
                                                             interaction)
                    /\ last' = CallOf("add_interaction", payload,
                                      Ok(interaction))
                    /\ minted' = minted \cup {set.ret}
            /\ UNCHANGED <<build, customers, now, deleted_customers,
                           deleted_interactions, updated_interactions>>

add_interaction ==
    /\ last = Idle
    /\ \E payload \in PayloadInputs :
        IF ~is_valid_interaction_payload(payload)
        THEN /\ last' = CallOf("add_interaction", payload, InvalidInput)
             /\ UNCHANGED <<build, counter, region0, customers, interactions,
                            now, minted, deleted_customers,
                            deleted_interactions, updated_interactions>>
        ELSE LET set == next_interaction_id(counter)
                 id == set.ret
                 interaction == new_interaction(id, payload)
             IN  IF ~interaction_fits(interaction)
                 THEN /\ last' = CallOf("add_interaction", payload, Panic)
                      /\ UNCHANGED <<build, counter, region0, customers,
                                     interactions, now, minted,
                                     deleted_customers, deleted_interactions,
                                     updated_interactions>>
                 ELSE /\ counter < MaxCounter
                      /\ counter' = set.cell
                      /\ region0' = set.cell
                      /\ interactions' = do_insert_interaction(interactions,
                                                               interaction)
                      /\ last' = CallOf("add_interaction", payload,
                                        Ok(interaction))
                      /\ minted' = minted \cup {id}
                      /\ UNCHANGED <<build, customers, now, deleted_customers,
                                     deleted_interactions,
                                     updated_interactions>>

\* update_interaction without its do_insert_interaction, as update_customer is
update_interaction_call_unsaved(id, payload) ==
    IF ~is_valid_interaction_payload(payload)
    THEN [ret |-> InvalidInput, interactions |-> interactions]
    ELSE IF _get_interaction(id) # None
         THEN LET old == _get_interaction(id)[1]
              IN  [ret |-> Ok(Interaction(old.id, old.customer_id,
                                          payload.interaction_type,
                                          payload.content, old.created_at,
                                          Some(now))),
                   interactions |-> interactions]
         ELSE [ret |-> NotFound, interactions |-> interactions]

\* update_interaction stamping created_at as well as updated_at
update_interaction_call_restamped(id, payload) ==
    IF ~is_valid_interaction_payload(payload)
    THEN [ret |-> InvalidInput, interactions |-> interactions]
    ELSE IF _get_interaction(id) # None
         THEN LET old == _get_interaction(id)[1]
                  interaction ==
                      Interaction(old.id, old.customer_id,
                                  payload.interaction_type, payload.content,
                                  now, Some(now))
              IN  [ret |-> Ok(interaction),
                   interactions |-> do_insert_interaction(interactions,
                                                          interaction)]
         ELSE [ret |-> NotFound, interactions |-> interactions]

\* update_interaction taking the payload's customer_id too
update_interaction_call_repointed(id, payload) ==
    IF ~is_valid_interaction_payload(payload)
    THEN [ret |-> InvalidInput, interactions |-> interactions]
    ELSE IF _get_interaction(id) # None
         THEN LET old == _get_interaction(id)[1]
                  interaction ==
                      Interaction(old.id, payload.customer_id,
                                  payload.interaction_type, payload.content,
                                  old.created_at, Some(now))
              IN  [ret |-> Ok(interaction),
                   interactions |-> do_insert_interaction(interactions,
                                                          interaction)]
         ELSE [ret |-> NotFound, interactions |-> interactions]

\* update_interaction(id, payload): its result and the store after it
update_interaction_call(id, payload) ==
    IF ~is_valid_interaction_payload(payload)
    THEN [ret |-> InvalidInput, interactions |-> interactions]
    ELSE IF interaction_get(interactions, id) # None
         THEN LET old == interaction_get(interactions, id)[1]
                  interaction ==
                      Interaction(old.id, old.customer_id,
                                  payload.interaction_type, payload.content,
                                  old.created_at, Some(now))
              IN  IF ~interaction_fits(interaction)
                  THEN [ret |-> Panic, interactions |-> interactions]
                  ELSE [ret |-> Ok(interaction),
                        interactions |-> do_insert_interaction(interactions,
                                                               interaction)]
         ELSE [ret |-> NotFound, interactions |-> interactions]

update_interaction ==
    /\ last = Idle
    /\ \E id \in Ids, payload \in PayloadInputs :
        LET call == update_interaction_call(id, payload)
        IN  /\ interactions' = call.interactions
            /\ last' = CallOf("update_interaction",
                              [id |-> id, payload |-> payload], call.ret)
            /\ updated_interactions' = IF call.ret.kind = "Ok"
                                       THEN updated_interactions \cup {id}
                                       ELSE updated_interactions
            /\ UNCHANGED <<build, counter, region0, customers, now, minted,
                           deleted_customers, deleted_interactions>>

delete_interaction_call(id) ==
    LET removed == MapRemove(interactions, id)
    IN  [ret |-> IF removed.ret # None
                 THEN Ok(interaction_from_bytes(removed.ret[1])) ELSE NotFound,
         interactions |-> removed.map]

delete_interaction ==
    /\ last = Idle
    /\ \E id \in Ids :
        LET call == delete_interaction_call(id)
        IN  /\ interactions' = call.interactions
            /\ last' = CallOf("delete_interaction", [id |-> id], call.ret)
            /\ deleted_interactions' = IF call.ret.kind = "Ok"
                                       THEN deleted_interactions \cup {id}
                                       ELSE deleted_interactions
            /\ updated_interactions' = updated_interactions \ {id}
            /\ UNCHANGED <<build, counter, region0, customers, now, minted,
                           deleted_customers>>

-----------------------------------------------------------------------------
(* Search. *)

RECURSIVE Ascending(_)
Ascending(keys) ==
    IF keys = {} THEN <<>>
    ELSE LET least == CHOOSE k \in keys : \A other \in keys : k <= other
         IN  <<least>> \o Ascending(keys \ {least})

\* StableBTreeMap::iter: the bytes of the values in ascending key order
MapIter(map) ==
    LET keys == Ascending(DOMAIN map)
    IN  [i \in 1 .. Len(keys) |-> map[keys[i]]]

\* the customers the iteration of CUSTOMER_STORAGE yields
customer_iter(map) ==
    [i \in 1 .. Len(MapIter(map)) |-> customer_from_bytes(MapIter(map)[i])]

\* the closure search_customers filters with
customer_matches(customer, name, email, phone) ==
    LET name_match == IF name = None THEN TRUE ELSE customer.name = name[1]
        email_match == IF email = None THEN TRUE ELSE customer.email = email[1]
        phone_match == IF phone = None THEN TRUE ELSE customer.phone = phone[1]
    IN  name_match /\ email_match /\ phone_match

UsizeModulus == Pow2(build.usize_bits)

\* `x as usize`: the low bits of x
as_usize(x) == x % UsizeModulus

Min(a, b) == IF a <= b THEN a ELSE b

\* search_customers.  An overflowing -, * or + panics with
\* overflow checks and wraps without; slicing [start..end] panics when
\* start > end (end <= len always holds here).
search_customers_call(name, email, phone, page_size, page_number) ==
    LET all_customers ==
            SelectSeq(customer_iter(customers),
                      LAMBDA c : customer_matches(c, name, email, phone))
        total_items == Len(all_customers)
        difference == page_number - 1
        product == as_usize(difference % U64Modulus)
                       * as_usize(page_size)
        start_index == product % UsizeModulus
        sum == start_index + as_usize(page_size)
        end_index == Min(sum % UsizeModulus, total_items)
        overflow == \/ difference < 0
                    \/ product >= UsizeModulus
                    \/ sum >= UsizeModulus
    IN  IF build.overflow_checks /\ overflow THEN Panic
        ELSE IF start_index > end_index THEN Panic
        ELSE Ok([total_items |-> total_items,
                 items |-> SubSeq(all_customers, start_index + 1, end_index)])

Filters(values) == {None} \cup {Some(v) : v \in values}

search_customers ==
    /\ last = Idle
    /\ \E name \in Filters({Ann, Bob}), email \in Filters({EmailBC}),
          phone \in Filters({PhoneX7}),
          page_size \in PageSizes, page_number \in PageNumbers :
        /\ last' = CallOf("search_customers",
                          [name |-> name, email |-> email, phone |-> phone,
                           page_size |-> page_size,
                           page_number |-> page_number],
                          search_customers_call(name, email, phone, page_size,
                                                page_number))
        /\ UNCHANGED <<build, counter, region0, customers, interactions, now,
                       minted, deleted_customers, deleted_interactions,
                       updated_interactions>>

-----------------------------------------------------------------------------
(* The environment. *)

\* the reply of the call is delivered: the canister takes the next call
Reply ==
    /\ last # Idle
    /\ last' = Idle
    /\ UNCHANGED <<build, counter, region0, customers, interactions, now,
                   minted, deleted_customers, deleted_interactions,
                   updated_interactions>>

\* time passes between two calls
Tick ==
    /\ last = Idle
    /\ now < MaxTime
    /\ now' = now + 1
    /\ UNCHANGED <<build, counter, region0, customers, interactions, last,
                   minted, deleted_customers, deleted_interactions,
                   updated_interactions>>

\* a restart that starts the counter from its default, 0
Restart_from_default ==
    /\ last = Idle
    /\ counter' = 0
    /\ last' = CallOf("restart", <<>>, Ok(<<>>))
    /\ UNCHANGED <<build, region0, customers, interactions, now, minted,
                   deleted_customers, deleted_interactions,
                   updated_interactions>>

\* a restart that creates the maps anew (StableBTreeMap::new for init)
Restart_new_maps ==
    /\ last = Idle
    /\ counter' = region0
    /\ customers' = EmptyMap
    /\ interactions' = EmptyMap
    /\ last' = CallOf("restart", <<>>, Ok(<<>>))
    /\ UNCHANGED <<build, region0, now, minted, deleted_customers,
                   deleted_interactions, updated_interactions>>

\* the statics are initialised again over the same memory: Cell::init reads
\* the value region 0 holds, StableBTreeMap::init opens regions 1 and 2
Restart ==
    /\ last = Idle
    /\ counter' = region0
    /\ last' = CallOf("restart", <<>>, Ok(<<>>))
    /\ UNCHANGED <<build, region0, customers, interactions, now, minted,
                   deleted_customers, deleted_interactions,
                   updated_interactions>>

Next ==
    \/ add_customer
    \/ get_customer
    \/ update_customer
    \/ delete_customer
    \/ add_interaction
    \/ get_interaction
    \/ update_interaction
    \/ delete_interaction
    \/ Reply
    \/ Tick
    \/ Restart

Spec == Init /\ [][Next]_vars

\* the customer store under its writers, and the search over it
NextSearch ==
    \/ add_customer
    \/ delete_customer
    \/ search_customers
    \/ Reply

SpecSearch == InitSearch /\ [][NextSearch]_vars

-----------------------------------------------------------------------------
(* The properties. *)

AddSucceeded ==
    last.op \in {"add_customer", "add_interaction"} /\ last.ret.kind = "Ok"

\* C1: every successful add_customer or add_interaction returns an id
\* strictly greater than every id an earlier successful add of either kind
\* returned.
C1_IdsStrictlyIncrease ==
    [][AddSucceeded' => \A earlier \in minted : last'.ret.val.id > earlier]_vars

\* an add_interaction has succeeded after ids were handed out to both kinds
C1_Witness ==
    /\ last.op = "add_interaction" /\ last.ret.kind = "Ok"
    /\ Cardinality(minted) >= 2
    /\ DOMAIN customers # {}

\* C2: after a successful update_customer(id, name, email, phone),
\* get_customer(id) returns the record update_customer returned, and that
\* record carries the name, email and phone passed.
C2_UpdateCustomerPersisted ==
    (last.op = "update_customer" /\ last.ret.kind = "Ok") =>
        /\ get_customer_result(last.args.id) = last.ret
        /\ last.ret.val.name = last.args.name
        /\ last.ret.val.email = last.args.email
        /\ last.ret.val.phone = last.args.phone

\* C3: search_customers with page_number = 0 returns an input-validation
\* error, whatever the page size and the store.
C3_PageZeroRejected ==
    (last.op = "search_customers" /\ last.args.page_number = 0) =>
        last.ret.kind = "InvalidInput"

\* a filter matches when it is absent or equal to the field
FilterHolds(filter, field) == filter = None \/ filter = Some(field)

\* the number of stored customers that match every filter of the latest search
MatchCount ==
    Cardinality({ id \in DOMAIN customers :
        LET customer == get_customer_result(id).val
        IN  /\ FilterHolds(last.args.name, customer.name)
            /\ FilterHolds(last.args.email, customer.email)
            /\ FilterHolds(last.args.phone, customer.phone) })

\* C4: for page_number >= 1 with (page_number - 1) * page_size at or beyond
\* the number of matches, search_customers returns an empty items list and
\* total_items = the number of matches.
C4_PastTheEndIsEmpty ==
    ( /\ last.op = "search_customers"
      /\ last.args.page_number >= 1
      /\ (last.args.page_number - 1) * last.args.page_size >= MatchCount ) =>
        last.ret = Ok([total_items |-> MatchCount, items |-> <<>>])

\* C5: the id a successful add returns is the counter value that add wrote:
\* right after the add, the returned id equals the counter.
C5_IdIsCounterWritten ==
    AddSucceeded => last.ret.val.id = counter

\* C6: right after a successful add_x, get_x of the returned id succeeds with
\* a record equal to the one add_x returned, for customers and interactions.
C6_GetAfterAdd ==
    /\ (last.op = "add_customer" /\ last.ret.kind = "Ok") =>
           get_customer_result(last.ret.val.id) = last.ret
    /\ (last.op = "add_interaction" /\ last.ret.kind = "Ok") =>
           get_interaction_result(last.ret.val.id) = last.ret

\* an add_customer has just succeeded while an interaction added before it
\* is stored
C6_Witness ==
    /\ last.op = "add_customer" /\ last.ret.kind = "Ok"
    /\ DOMAIN interactions # {}

\* C7: once delete_x(id) has succeeded, get_x(id) and a further delete_x(id)
\* return NotFound, in every later state.
C7_DeletedStaysGone ==
    /\ \A id \in deleted_customers :
           /\ get_customer_result(id) = NotFound
           /\ delete_customer_call(id).ret = NotFound
    /\ \A id \in deleted_interactions :
           /\ get_interaction_result(id) = NotFound
           /\ delete_interaction_call(id).ret = NotFound

\* a second delete_interaction of a deleted id has returned NotFound, after a
\* customer minted before it was deleted too
C7_Witness ==
    /\ last.op = "delete_interaction" /\ last.ret = NotFound
    /\ last.args.id \in deleted_interactions
    /\ \E id \in deleted_customers : id < last.args.id

\* C8: after a successful update_interaction(id, payload), get_interaction(id)
\* returns the record update_interaction returned, whose interaction_type and
\* content are the payload's.
C8_UpdateInteractionPersisted ==
    (last.op = "update_interaction" /\ last.ret.kind = "Ok") =>
        /\ get_interaction_result(last.args.id) = last.ret
        /\ last.ret.val.interaction_type = last.args.payload.interaction_type
        /\ last.ret.val.content = last.args.payload.content

\* an update_interaction has just replaced the content of an interaction
C8_Witness ==
    /\ last.op = "update_interaction" /\ last.ret.kind = "Ok"
    /\ \E id \in deleted_interactions \cup DOMAIN customers : id < last.args.id
    /\ last.ret.val.content = Bye

\* the updated_at and the created_at of the stored interaction id
updated_at(id) == interaction_from_bytes(interactions[id]).updated_at

created_at(id) == interaction_from_bytes(interactions[id]).created_at

\* what C9 says of the interactions stored in a state
UpdatedAtRecordsUpdates ==
    \A id \in DOMAIN interactions :
        /\ (updated_at(id) = None) <=> (id \notin updated_interactions)
        /\ updated_at(id) # None => updated_at(id)[1] >= created_at(id)

\* C9: initially and after every step, a stored interaction has no
\* updated_at exactly when no update_interaction has succeeded on it, and an
\* updated_at is >= created_at; and no step (a further update_interaction
\* included) moves an updated_at to a smaller value or removes it.
C9_UpdatedAt ==
    /\ UpdatedAtRecordsUpdates
    /\ [][ /\ UpdatedAtRecordsUpdates'
           /\ \A id \in DOMAIN interactions \cap DOMAIN interactions' :
                  updated_at(id) # None =>
                      /\ updated_at(id)' # None
                      /\ updated_at(id)'[1] >= updated_at(id)[1] ]_vars

\* an interaction has been updated at a later time than it was created
C9_Witness ==
    /\ last.op = "update_interaction" /\ last.ret.kind = "Ok"
    /\ last.ret.val.updated_at # None
    /\ last.ret.val.updated_at[1] > last.ret.val.created_at

LacksAt(string) == \A i \in 1 .. Len(string) : string[i] # "@"

LacksNumeric(string) == \A i \in 1 .. Len(string) : string[i] \notin Numeric

\* C10: update_customer with an email without '@' or a phone without a
\* numeric character returns InvalidInput, and update_interaction with an
\* empty interaction_type or content returns InvalidInput, whether the id
\* exists or not; NotFound is returned only for a valid input and an absent id.
C10_ValidationBeforeExistence ==
    /\ last.op = "update_customer" =>
        /\ (LacksAt(last.args.email) \/ LacksNumeric(last.args.phone)) =>
               last.ret = InvalidInput
        /\ last.ret = NotFound =>
               /\ ~LacksAt(last.args.email)
               /\ ~LacksNumeric(last.args.phone)
               /\ last.args.id \notin DOMAIN customers
    /\ last.op = "update_interaction" =>
        /\ (last.args.payload.interaction_type = <<>>
                \/ last.args.payload.content = <<>>) =>
               last.ret = InvalidInput
        /\ last.ret = NotFound =>
               /\ last.args.payload.interaction_type # <<>>
               /\ last.args.payload.content # <<>>
               /\ last.args.id \notin DOMAIN interactions

\* update_customer has rejected an invalid input for an id that is not stored
\* while another customer is
C10_Witness ==
    /\ last.op = "update_customer" /\ last.ret = InvalidInput
    /\ last.args.id \notin DOMAIN customers
    /\ DOMAIN customers # {}

\* the customer an add_customer of the latest arguments builds, but for its
\* id and created_at, and likewise the interaction
ArgsCustomer ==
    Customer(0, last.args.name, last.args.email, last.args.phone, 0)

ArgsInteraction ==
    Interaction(0, last.args.customer_id, last.args.interaction_type,
                last.args.content, 0, None)

\* the latest add returned Ok with a record made of its arguments, which is
\* stored under the returned id
AddCustomerStored ==
    /\ last.ret.kind = "Ok"
    /\ last.ret.val.name = last.args.name
    /\ last.ret.val.email = last.args.email
    /\ last.ret.val.phone = last.args.phone
    /\ last.ret.val.id \in DOMAIN customers
    /\ customer_from_bytes(customers[last.ret.val.id]) = last.ret.val

AddInteractionStored ==
    /\ last.ret.kind = "Ok"
    /\ last.ret.val.customer_id = last.args.customer_id
    /\ last.ret.val.interaction_type = last.args.interaction_type
    /\ last.ret.val.content = last.args.content
    /\ last.ret.val.id \in DOMAIN interactions
    /\ interaction_from_bytes(interactions[last.ret.val.id]) = last.ret.val

\* C11 as stated: add_customer returns InvalidInput exactly when the email
\* has no '@' or the phone has no numeric character, add_interaction exactly
\* when interaction_type or content is empty, and in every other case the add
\* succeeds and stores the record.
C11_AddSucceedsUnlessInvalid ==
    /\ last.op = "add_customer" =>
        /\ (last.ret = InvalidInput) <=>
               (LacksAt(last.args.email) \/ LacksNumeric(last.args.phone))
        /\ last.ret # InvalidInput => AddCustomerStored
    /\ last.op = "add_interaction" =>
        /\ (last.ret = InvalidInput) <=>
               (last.args.interaction_type = <<>> \/ last.args.content = <<>>)
        /\ last.ret # InvalidInput => AddInteractionStored

\* C11, amended: add_customer returns InvalidInput exactly when the email has
\* no '@' or the phone has no numeric character, and add_interaction exactly
\* when interaction_type or content is empty; in every other case the add
\* succeeds and stores the record if the record's encoding is at most MAX_SIZE
\* (1024) bytes, and traps otherwise; whether customer_id names a stored
\* customer plays no part.
C11_AddValidation ==
    /\ last.op = "add_customer" =>
        /\ (last.ret = InvalidInput) <=>
               (LacksAt(last.args.email) \/ LacksNumeric(last.args.phone))
        /\ last.ret # InvalidInput =>
               IF customer_encoded_len(ArgsCustomer) <= CUSTOMER_MAX_SIZE
               THEN AddCustomerStored ELSE last.ret = Panic
    /\ last.op = "add_interaction" =>
        /\ (last.ret = InvalidInput) <=>
               (last.args.interaction_type = <<>> \/ last.args.content = <<>>)
        /\ last.ret # InvalidInput =>
               IF interaction_encoded_len(ArgsInteraction)
                      <= INTERACTION_MAX_SIZE
               THEN AddInteractionStored ELSE last.ret = Panic

\* an add_interaction has succeeded for a customer_id that names no stored
\* customer, while a customer is stored under another id
C11_Witness ==
    /\ last.op = "add_interaction" /\ last.ret.kind = "Ok"
    /\ last.args.customer_id \notin DOMAIN customers
    /\ DOMAIN customers # {}

\* the stored customers that match every filter of the latest search, in
\* ascending id order
MatchIds ==
    { id \in DOMAIN customers :
        LET customer == customer_from_bytes(customers[id])
        IN  /\ FilterHolds(last.args.name, customer.name)
            /\ FilterHolds(last.args.email, customer.email)
            /\ FilterHolds(last.args.phone, customer.phone) }

MatchesAscending ==
    LET ids == Ascending(MatchIds)
    IN  [i \in 1 .. Len(ids) |-> customer_from_bytes(customers[ids[i]])]

\* the start index the latest search asks for
PageStart == (last.args.page_number - 1) * last.args.page_size

\* C12: for page_number >= 1 with a start index below the number of matches,
\* search_customers returns total_items = the number of all stored customers
\* matching every provided filter, and items = the matches in ascending id
\* order at the positions [start, min(start + page_size, total_items)), with
\* start = (page_number - 1) * page_size.
C12_SearchPage ==
    ( /\ last.op = "search_customers"
      /\ last.args.page_number >= 1
      /\ PageStart < Cardinality(MatchIds) ) =>
        last.ret =
            Ok([total_items |-> Cardinality(MatchIds),
                items |-> SubSeq(MatchesAscending, PageStart + 1,
                                 Min(PageStart + last.args.page_size,
                                     Cardinality(MatchIds)))])

\* C13: every entry of the customer map and of the interaction map is stored
\* under the key equal to the id of its record.
C13_KeyIsId ==
    /\ \A key \in DOMAIN customers :
           customer_from_bytes(customers[key]).id = key
    /\ \A key \in DOMAIN interactions :
           interaction_from_bytes(interactions[key]).id = key

\* an update_interaction has just stored its record again while a customer is
\* stored too
C13_Witness ==
    /\ last.op = "update_interaction" /\ last.ret.kind = "Ok"
    /\ last.args.id \in DOMAIN interactions
    /\ DOMAIN customers # {}

\* C14: the counter never decreases in any step (deletes, updates, failed
\* calls and restarts included), and so a successful add never returns an id
\* that was deleted.
C14_CounterNeverDecreases ==
    [][ /\ counter' >= counter
        /\ AddSucceeded' =>
               last'.ret.val.id \notin
                   deleted_customers \cup deleted_interactions ]_vars

\* a restart after ids were handed out and a record was deleted
C14_Witness ==
    /\ last.op = "restart"
    /\ counter > 0
    /\ deleted_customers \cup deleted_interactions # {}

\* C15: a restart leaves the counter and both maps unchanged; the counter is
\* 0 after a restart only when the store is fresh, no id having been handed
\* out.
C15_RestartKeepsState ==
    [][ last'.op = "restart" =>
            /\ counter' = counter
            /\ customers' = customers
            /\ interactions' = interactions
            /\ counter' = 0 => minted = {} ]_vars

\* a restart with a customer and an interaction stored
C15_Witness ==
    /\ last.op = "restart"
    /\ DOMAIN customers # {}
    /\ DOMAIN interactions # {}

CustomerOps ==
    {"add_customer", "get_customer", "update_customer", "delete_customer"}

InteractionOps ==
    {"add_interaction", "get_interaction", "update_interaction",
     "delete_interaction"}

\* C16: a customer operation leaves the interaction map unchanged and an
\* interaction operation leaves the customer map unchanged; after
\* delete_customer(c), every interaction whose customer_id is c is still
\* stored, as it was.
C16_StoresIsolated ==
    [][ /\ last'.op \in CustomerOps => interactions' = interactions
        /\ last'.op \in InteractionOps => customers' = customers
        /\ last'.op = "delete_customer" =>
               \A i \in DOMAIN interactions :
                   interaction_from_bytes(interactions[i]).customer_id
                           = last'.args.id =>
                       /\ i \in DOMAIN interactions'
                       /\ interactions'[i] = interactions[i] ]_vars

\* a delete_customer has succeeded while an interaction naming that customer
\* is stored
C16_Witness ==
    /\ last.op = "delete_customer" /\ last.ret.kind = "Ok"
    /\ \E i \in DOMAIN interactions :
           interaction_from_bytes(interactions[i]).customer_id = last.args.id

\* C17: the id and the created_at of a stored record are the same after
\* every step for as long as the record is stored, for customers and
\* interactions.
C17_IdAndCreatedAtKept ==
    [][ /\ \A id \in DOMAIN customers \cap DOMAIN customers' :
               /\ customer_from_bytes(customers[id]).id
                      = customer_from_bytes(customers'[id]).id
               /\ customer_from_bytes(customers[id]).created_at
                      = customer_from_bytes(customers'[id]).created_at
        /\ \A id \in DOMAIN interactions \cap DOMAIN interactions' :
               /\ interaction_from_bytes(interactions[id]).id
                      = interaction_from_bytes(interactions'[id]).id
               /\ interaction_from_bytes(interactions[id]).created_at
                      = interaction_from_bytes(interactions'[id]).created_at
      ]_vars

\* an update_interaction has succeeded, later than the interaction was
\* created, while a customer is stored
C17_Witness ==
    /\ last.op = "update_interaction" /\ last.ret.kind = "Ok"
    /\ last.ret.val.created_at < now
    /\ DOMAIN customers # {}

\* C18: a call that returns InvalidInput or NotFound leaves the counter and
\* both maps unchanged: a rejected add takes no id.
C18_RejectedCallChangesNothing ==
    [][ last'.ret.kind \in {"InvalidInput", "NotFound"} =>
            /\ counter' = counter
            /\ customers' = customers
            /\ interactions' = interactions ]_vars

\* an add_interaction has been rejected after an id was handed out
C18_Witness ==
    /\ last.op = "add_interaction" /\ last.ret = InvalidInput
    /\ minted # {}
    /\ counter > 0

\* C19: no id is a key of both maps, and every key of either map is at most
\* the counter.
C19_KeysDisjointAndBounded ==
    /\ DOMAIN customers \cap DOMAIN interactions = {}
    /\ \A key \in DOMAIN customers \cup DOMAIN interactions : key <= counter

\* both maps hold a record, one of them under the latest id handed out
C19_Witness ==
    /\ DOMAIN customers # {}
    /\ DOMAIN interactions # {}
    /\ counter - 1 \in DOMAIN customers \cup DOMAIN interactions

\* C20: a successful update_interaction leaves the customer_id of the stored
\* interaction as it was, and returns it, whatever customer_id its payload
\* carries.
C20_CustomerIdKept ==
    [][ (last'.op = "update_interaction" /\ last'.ret.kind = "Ok") =>
            /\ last'.args.id \in DOMAIN interactions
            /\ interaction_from_bytes(interactions'[last'.args.id]).customer_id
                   = interaction_from_bytes(interactions[last'.args.id]).customer_id
            /\ last'.ret.val.customer_id
                   = interaction_from_bytes(interactions[last'.args.id]).customer_id
      ]_vars

\* an update_interaction has succeeded with a payload naming another customer
\* than the stored interaction does
C20_Witness ==
    /\ last.op = "update_interaction" /\ last.ret.kind = "Ok"
    /\ last.args.payload.customer_id # last.ret.val.customer_id

====
